---- MODULE Spec2Model ----
(***************************************************************************)
(* Model of kornia.geometry.line: the ParametrizedLine class and the       *)
(* fit_line function.                                                      *)
(*                                                                         *)
(* Tensor elements are exact real numbers of the form (a + b*sqrt(r))/c,   *)
(* which is closed under the arithmetic the module performs on grid        *)
(* inputs (the only irrational numbers come from the L2 normalisation and  *)
(* from the square root of distance).  Points have two coordinates.        *)
(***************************************************************************)
EXTENDS Integers, Sequences, FiniteSets, TLC

(***************************************************************************)
(* Bounds of the model.                                                    *)
(***************************************************************************)
MaxCoord == 1       \* line points have integer coordinates in -MaxCoord..MaxCoord
MaxT == 2           \* steps t of point_at are k and k/2 for k in -MaxT..MaxT
MaxB == 2           \* batched lines stack 1..MaxB rows
MaxFitCoord == 1    \* point clouds have integer coordinates in 0..MaxFitCoord
MaxN == 3           \* point clouds have 2..MaxN points
MaxW == 2           \* weights are integers in 0..MaxW

None == "None"

(***************************************************************************)
(* Exact scalars.  Q(a, b, c, r) is (a + b*sqrt(r))/c in canonical form:   *)
(* c > 0, gcd(a, b, c) = 1, r square-free, and b = 0 exactly when r = 1.   *)
(* Two canonical scalars are the same number iff they are equal records.   *)
(***************************************************************************)
Abs(n) == IF n < 0 THEN -n ELSE n

RECURSIVE GCD(_, _)
GCD(m, n) == IF n = 0 THEN Abs(m) ELSE GCD(n, m % n)

Q(a, b, c, r) ==
    LET s  == IF c < 0 THEN -1 ELSE 1
        a1 == IF r = 1 THEN s * (a + b) ELSE s * a
        b1 == IF r = 1 THEN 0 ELSE s * b
        c1 == s * c
        g  == GCD(GCD(Abs(a1), Abs(b1)), c1)
    IN  [a |-> a1 \div g, b |-> b1 \div g, c |-> c1 \div g,
         r |-> IF b1 = 0 THEN 1 ELSE r]

QInt(n) == Q(n, 0, 1, 1)
QFrac(n, d) == Q(n, 0, d, 1)
Zero == QInt(0)
One == QInt(1)

(* The surd two operands share; operands of one computation never mix two  *)
(* different surds (CHOOSE over the empty set stops the check if they do). *)
SurdOf(x, y) ==
    IF x.r = 1 THEN y.r
    ELSE IF y.r = 1 \/ y.r = x.r THEN x.r
    ELSE CHOOSE r \in {} : TRUE

QAdd(x, y) ==
    LET g  == GCD(x.c, y.c)
        mx == y.c \div g
        my == x.c \div g
    IN  Q(x.a * mx + y.a * my, x.b * mx + y.b * my, x.c * mx, SurdOf(x, y))
QNeg(x) == Q(-x.a, -x.b, x.c, x.r)
QSub(x, y) == QAdd(x, QNeg(y))
QMul(x, y) ==
    LET r == SurdOf(x, y)
    IN  Q(x.a * y.a + x.b * y.b * r, x.a * y.b + x.b * y.a, x.c * y.c, r)
(* 1/y = c*(a - b*sqrt(r)) / (a^2 - b^2*r), y # 0 *)
QInv(y) == Q(y.c * y.a, -(y.c * y.b), y.a * y.a - y.b * y.b * y.r, y.r)
QDiv(x, y) == QMul(x, QInv(y))

Sgn(n) == IF n > 0 THEN 1 ELSE IF n < 0 THEN -1 ELSE 0
QSign(x) ==
    IF x.b = 0 THEN Sgn(x.a)
    ELSE IF x.a = 0 THEN Sgn(x.b)
    ELSE IF Sgn(x.a) = Sgn(x.b) THEN Sgn(x.a)
    ELSE Sgn(x.a) * Sgn(x.a * x.a - x.b * x.b * x.r)
QLeq(x, y) == QSign(QSub(y, x)) >= 0
QAbs(x) == IF QSign(x) < 0 THEN QNeg(x) ELSE x

(* integer square root, rounded down *)
RECURSIVE Isqrt(_)
Isqrt(n) ==
    IF n < 2 THEN n
    ELSE LET s == 2 * Isqrt(n \div 4)
         IN  IF (s + 1) * (s + 1) <= n THEN s + 1 ELSE s

(* largest k in lo..hi with k*k dividing n, 1 if there is none *)
RECURSIVE SqPartIn(_, _, _)
SqPartIn(n, lo, hi) ==
    IF lo >= hi THEN (IF n % (lo * lo) = 0 THEN lo ELSE 1)
    ELSE LET mid == (lo + hi) \div 2
             up  == SqPartIn(n, mid + 1, hi)
         IN  IF up > 1 THEN up ELSE SqPartIn(n, lo, mid)
SqPart(n) == SqPartIn(n, 1, Isqrt(n))

(* square root of a non-negative rational p/q: sqrt(p*q)/q *)
SqrtDefined(x) == x.b = 0 /\ x.a >= 0
QSqrt(x) ==
    LET n == x.a * x.c
        k == SqPart(n)
    IN  IF n = 0 THEN Zero ELSE Q(0, k, x.c, n \div (k * k))

(***************************************************************************)
(* Vectors are sequences of scalars.  Tup(f) is the function f on 1..n     *)
(* written out as the tuple of its values.                                 *)
(***************************************************************************)
Tup(f) == f \o <<>>
VAdd(u, v) == Tup([i \in DOMAIN u |-> QAdd(u[i], v[i])])
VSub(u, v) == Tup([i \in DOMAIN u |-> QSub(u[i], v[i])])
VScale(u, s) == Tup([i \in DOMAIN u |-> QMul(u[i], s)])

RECURSIVE QSum(_, _)
QSum(f, n) == IF n = 0 THEN Zero ELSE QAdd(QSum(f, n - 1), f[n])

Dot(u, v) == QSum(Tup([i \in DOMAIN u |-> QMul(u[i], v[i])]), Len(u))
IntVec(p) == Tup([i \in DOMAIN p |-> QInt(p[i])])


(***************************************************************************)
(* Tensors of the line API carry their shape: a single D-vector has shape  *)
(* <<D>>, a stack of B vectors has shape <<B, D>>.                         *)
(***************************************************************************)
Tensor1(vec) == [shape |-> <<Len(vec)>>, v |-> vec]
Tensor2(rows) == [shape |-> <<Len(rows), Len(rows[1])>>, v |-> rows]
Rank(x) == Len(x.shape)
(* Python's len(tensor): the size of the first axis *)
TensorLen(x) == x.shape[1]

(* element-wise arithmetic, row by row for a stack *)
TAdd(x, y) ==
    IF Rank(x) = 1 THEN [x EXCEPT !.v = VAdd(x.v, y.v)]
    ELSE [x EXCEPT !.v = Tup([i \in DOMAIN x.v |-> VAdd(x.v[i], y.v[i])])]
TSub(x, y) ==
    IF Rank(x) = 1 THEN [x EXCEPT !.v = VSub(x.v, y.v)]
    ELSE [x EXCEPT !.v = Tup([i \in DOMAIN x.v |-> VSub(x.v[i], y.v[i])])]
TScale(x, s) ==
    IF Rank(x) = 1 THEN [x EXCEPT !.v = VScale(x.v, s)]
    ELSE [x EXCEPT !.v = Tup([i \in DOMAIN x.v |-> VScale(x.v[i], s)])]

(* squared L2 norm along the last axis (kornia.geometry.linalg) *)
squared_norm(v) == Dot(v, v)

(* torch.nn.functional.normalize(x, p=2, dim=-1): x / max(||x||_2, eps);   *)
(* eps = 1e-12 is below every non-zero norm of the model, and a zero       *)
(* vector divided by eps stays zero.                                       *)
NormalizeVec(u) ==
    LET n == QSqrt(Dot(u, u))
    IN  IF n = Zero THEN u ELSE Tup([i \in DOMAIN u |-> QDiv(u[i], n)])
normalize(x) ==
    IF Rank(x) = 1 THEN [x EXCEPT !.v = NormalizeVec(x.v)]
    ELSE [x EXCEPT !.v = Tup([i \in DOMAIN x.v |-> NormalizeVec(x.v[i])])]

(***************************************************************************)
(* class ParametrizedLine                                                  *)
(***************************************************************************)
ParametrizedLine(origin, direction) == [origin |-> origin, direction |-> direction]

dim(self) == TensorLen(self.direction)

(* through with the difference left unnormalised *)
through_unnormalized(p0, p1) == ParametrizedLine(p0, TSub(p1, p0))
through(p0, p1) == ParametrizedLine(p0, normalize(TSub(p1, p0)))

point_at(self, t) == TAdd(self.origin, TScale(self.direction, t))

(* the operations below are defined on single (unbatched) lines and points: *)
(* `direction @ x` on 1-D tensors is the dot product                        *)
(* projection with the origin not subtracted from the point *)
projection_no_origin(self, point) ==
    Tensor1(VAdd(self.origin.v,
                 VScale(self.direction.v, Dot(self.direction.v, point.v))))
projection(self, point) ==
    Tensor1(VAdd(self.origin.v,
                 VScale(self.direction.v,
                        Dot(self.direction.v, VSub(point.v, self.origin.v)))))

squared_distance(self, point) ==
    LET diff == VSub(point.v, self.origin.v)
    IN  squared_norm(VScale(self.direction.v,
                            Dot(VSub(diff, self.direction.v), diff)))

distance(self, point) == QSqrt(squared_distance(self, point))

(***************************************************************************)
(* State: the line object under test, the last call made, the call's       *)
(* arguments and its return value; fed tells that the argument is the      *)
(* point the call before returned; locals holds the local variables of     *)
(* fit_line when it returned or raised.                                    *)
(***************************************************************************)
VARIABLES line, op, args, ret, fed, locals

vars == <<line, op, args, ret, fed, locals>>

Coords == -MaxCoord..MaxCoord
GridVecs == {IntVec(<<x, y>>) : x \in Coords, y \in Coords}
GridPoints == {Tensor1(u) : u \in GridVecs}
BatchRows == {IntVec(<<0, 0>>), IntVec(<<1, 0>>), IntVec(<<0, 1>>)}
Batches == UNION {{Tensor2(rows) : rows \in [1..b -> BatchRows]} : b \in 1..MaxB}
LineTensors == GridPoints \cup Batches
(* directions handed to the constructor as they are: the unit vectors of   *)
(* the axes and the unnormalised [1, 1] of the docstring                   *)
RawVecs == {IntVec(d) : d \in {<<1, 0>>, <<0, 1>>, <<-1, 0>>, <<0, -1>>, <<1, 1>>}}
RawDirections == {t \in LineTensors : Rank(t) = 2 \/ t.v \in RawVecs}
Steps == {QFrac(k, 2) : k \in (-2 * MaxT)..(2 * MaxT)}

Init ==
    /\ line = None
    /\ op = "init"
    /\ args = <<>>
    /\ ret = None
    /\ fed = FALSE
    /\ locals = None

(* The calls are pure and leave the line alone, so the state a call on a    *)
(* grid argument leads to does not depend on the calls made before it: a   *)
(* line is constructed once, a first call is made on it, and a call on the *)
(* returned point may follow.                                              *)
New ==
    /\ op = "init"
    /\ \E origin \in LineTensors, direction \in RawDirections :
        /\ origin.shape = direction.shape
        /\ line' = ParametrizedLine(origin, direction)
        /\ op' = "__init__"
        /\ args' = <<origin, direction>>
        /\ ret' = None
        /\ fed' = FALSE
        /\ UNCHANGED locals

Through ==
    /\ op = "init"
    /\ \E p0 \in LineTensors, p1 \in LineTensors :
        /\ p0.shape = p1.shape
        /\ line' = through(p0, p1)
        /\ op' = "through"
        /\ args' = <<p0, p1>>
        /\ ret' = None
        /\ fed' = FALSE
        /\ UNCHANGED locals

Constructed == op \in {"__init__", "through"}

Dim ==
    /\ Constructed
    /\ op' = "dim"
    /\ args' = <<>>
    /\ ret' = dim(line)
    /\ fed' = FALSE
    /\ UNCHANGED <<line, locals>>

PointAt ==
    \E t \in Steps :
        /\ Constructed
        /\ op' = "point_at"
        /\ args' = <<t>>
        /\ ret' = point_at(line, t)
        /\ fed' = FALSE
        /\ UNCHANGED <<line, locals>>

(* a query point is a grid point, or the point the previous call returned *)
IsSingle(self) == Rank(self.direction) = 1
CanFeedBack == op \in {"point_at", "projection"} /\ ~fed

ProjectionCall(point) ==
    /\ op' = "projection"
    /\ args' = <<point>>
    /\ ret' = projection(line, point)
    /\ UNCHANGED <<line, locals>>

Projection ==
    /\ op # "init"
    /\ IsSingle(line)
    /\ \/ \E point \in GridPoints : Constructed /\ fed' = FALSE /\ ProjectionCall(point)
       \/ CanFeedBack /\ fed' = TRUE /\ ProjectionCall(ret)

SquaredDistanceCall(point) ==
    /\ op' = "squared_distance"
    /\ args' = <<point>>
    /\ ret' = squared_distance(line, point)
    /\ UNCHANGED <<line, locals>>

SquaredDistance ==
    /\ op # "init"
    /\ IsSingle(line)
    /\ \/ \E point \in GridPoints : Constructed /\ fed' = FALSE /\ SquaredDistanceCall(point)
       \/ CanFeedBack /\ fed' = TRUE /\ SquaredDistanceCall(ret)

(* the square root is taken when its value is a number of the model *)
DistanceCall(point) ==
    /\ SqrtDefined(squared_distance(line, point))
    /\ op' = "distance"
    /\ args' = <<point>>
    /\ ret' = distance(line, point)
    /\ UNCHANGED <<line, locals>>

Distance ==
    /\ op # "init"
    /\ IsSingle(line)
    /\ \/ \E point \in GridPoints : Constructed /\ fed' = FALSE /\ DistanceCall(point)
       \/ CanFeedBack /\ fed' = TRUE /\ DistanceCall(ret)

Next ==
    \/ New
    \/ Through
    \/ Dim
    \/ PointAt
    \/ Projection
    \/ SquaredDistance
    \/ Distance

Spec == Init /\ [][Next]_vars

(***************************************************************************)
(* fit_line.  points is a (B, N, D) tensor, weights an optional (B, N)     *)
(* tensor: <<>> is Python's None and <<w>> a given tensor w.               *)
(***************************************************************************)
Tensor3(v) == [shape |-> <<Len(v), Len(v[1]), Len(v[1][1])>>, v |-> v]
NoWeights == <<>>
Given(w) == <<w>>

(* matrices are sequences of rows *)
Transpose(M) == Tup([j \in DOMAIN M[1] |-> Tup([i \in DOMAIN M |-> M[i][j]])])
MatMul(P, R) ==
    Tup([i \in DOMAIN P |->
        Tup([j \in DOMAIN R[1] |->
            QSum(Tup([k \in DOMAIN R |-> QMul(P[i][k], R[k][j])]), Len(R))])])
MatVec(M, u) == Tup([i \in DOMAIN M |-> Dot(M[i], u)])

(* points.mean(-2, True): the mean over the N axis, kept as an axis of size 1 *)
MeanRows(cloud) ==
    Tup([i \in DOMAIN cloud[1] |->
        QDiv(QSum(Tup([k \in DOMAIN cloud |-> cloud[k][i]]), Len(cloud)), QInt(Len(cloud)))])
mean(points) == Tensor3(Tup([b \in DOMAIN points.v |-> <<MeanRows(points.v[b])>>]))

(* points - points_mean, the mean broadcast along the N axis *)
Centered(points, points_mean) ==
    Tensor3(Tup([b \in DOMAIN points.v |->
        Tup([k \in DOMAIN points.v[b] |-> VSub(points.v[b][k], points_mean.v[b][1])])]))

(* torch.diag_embed on one batch element *)
diag_embed(w) == Tup([k \in DOMAIN w |-> Tup([l \in DOMAIN w |-> IF k = l THEN w[k] ELSE Zero])])

(* the scatter of the rows scaled by their weights: (W A)^T (W A) *)
WeightedScatter_squared(X, weights) ==
    Tensor3(Tup([b \in DOMAIN X.v |->
        MatMul(Transpose(MatMul(diag_embed(weights.v[b]), X.v[b])),
               MatMul(diag_embed(weights.v[b]), X.v[b]))]))
(* A.transpose(-2,-1) @ torch.diag_embed(weights) @ A *)
WeightedScatter(X, weights) ==
    Tensor3(Tup([b \in DOMAIN X.v |->
        MatMul(MatMul(Transpose(X.v[b]), diag_embed(weights.v[b])), X.v[b])]))

(* A.transpose(-2,-1) @ A *)
Scatter(X) ==
    Tensor3(Tup([b \in DOMAIN X.v |-> MatMul(Transpose(X.v[b]), X.v[b])]))

(* kornia.testing: the checks pass (TRUE) or raise *)
KORNIA_CHECK_SHAPE(x, rank) == Rank(x) = rank
KORNIA_CHECK(condition) == condition

(***************************************************************************)
(* torch.linalg.svd(A) returns U, S, Vh with A = U diag(S) Vh, S           *)
(* descending and the rows of Vh the right singular vectors.  A is a       *)
(* symmetric positive semi-definite 2x2 matrix here, so the rows of Vh are *)
(* orthonormal eigenvectors of A in descending order of eigenvalue.  The   *)
(* library fixes neither the sign of a row nor the basis of a repeated     *)
(* eigenvalue: SvdVh is the set of the Vh it may return.  Rows are the     *)
(* unit vectors of rational slope on a grid; a matrix whose eigenvectors   *)
(* are not among them has no decomposition in the model.                   *)
(***************************************************************************)
EigCoords == (-2 * MaxCoord)..(2 * MaxCoord)
(* one vector for each direction of the grid, up to sign *)
HalfDirections ==
    {IntVec(<<x, y>>) : <<x, y>> \in
        {d \in EigCoords \X EigCoords :
            /\ GCD(Abs(d[1]), Abs(d[2])) = 1
            /\ d[1] > 0 \/ (d[1] = 0 /\ d[2] > 0)}}
Perp(u) == <<QNeg(u[2]), u[1]>>
VNeg(u) == Tup([i \in DOMAIN u |-> QNeg(u[i])])
Rayleigh(M, u) == Dot(u, MatVec(M, u))
(* M u is a multiple of u (u # 0, two coordinates) *)
IsEigenvector(M, u) ==
    \E Mu \in {MatVec(M, u)} : QMul(Mu[1], u[2]) = QMul(Mu[2], u[1])
(* the directions of the eigenvectors of the largest eigenvalue of a       *)
(* symmetric M: Perp(u) is then an eigenvector too, and since u and        *)
(* Perp(u) have the same length their Rayleigh quotients compare as the    *)
(* eigenvalues do                                                          *)
TopDirections(M) ==
    {u \in HalfDirections :
        /\ IsEigenvector(M, u)
        /\ QLeq(Rayleigh(M, Perp(u)), Rayleigh(M, u))}
TopUnitVecs(M) ==
    UNION {{NormalizeVec(u), VNeg(NormalizeVec(u))} : u \in TopDirections(M)}
SvdVh(M) ==
    IF M = Transpose(M)
    THEN UNION {{<<u, Perp(u)>>, <<u, VNeg(Perp(u))>>} : u \in TopUnitVecs(M)}
    ELSE {}
(* the batched decomposition: one Vh per batch element *)
RECURSIVE SvdBatch(_, _)
SvdBatch(A, b) ==
    IF b = 0 THEN {<<>>}
    ELSE {Append(V, Vh) : V \in SvdBatch(A, b - 1), Vh \in SvdVh(A[b])}
svd(A) == SvdBatch(A.v, Len(A.v))

(* V[..., 0]: index 0 of the last axis, for every index of the axes before *)
SelectLast0(V) == Tensor2(Tup([b \in DOMAIN V |-> Tup([i \in DOMAIN V[b] |-> V[b][i][1]])]))

(* fit_line up to the decomposition: the locals when it raises, or the     *)
(* matrix A handed to torch.linalg.svd                                     *)
WeightsAccepted(points, weights) ==
    /\ KORNIA_CHECK_SHAPE(weights, 2)
    /\ KORNIA_CHECK(SubSeq(points.shape, 1, 2) = SubSeq(weights.shape, 1, 2))

fit_line_A(points, weights) ==
    LET points_mean == mean(points)
        A == Centered(points, points_mean)
    IN  IF weights # NoWeights
        THEN IF WeightsAccepted(points, weights[1])
             THEN [raised |-> FALSE, points_mean |-> points_mean,
                   A |-> WeightedScatter(A, weights[1])]
             ELSE [raised |-> TRUE, points_mean |-> points_mean, A |-> A]
        ELSE [raised |-> FALSE, points_mean |-> points_mean, A |-> Scatter(A)]

fit_line(points, weights) ==
    \E f \in {fit_line_A(points, weights)} :
        /\ KORNIA_CHECK_SHAPE(points, 3)
        /\ args' = <<points, weights>>
        /\ fed' = FALSE
        /\ IF f.raised
           THEN /\ locals' = f
                /\ ret' = None
           ELSE \E V \in svd(f.A) :
                /\ locals' = f @@ [V |-> V]
                /\ ret' = SelectLast0(V)

(* the inputs: a cloud starts at the origin and lists its points in        *)
(* lexicographic order; the weights are 0/1 masks, the same weight 1..MaxW *)
(* for every point, or ones of a shape that may differ from that of the    *)
(* points                                                                  *)
BatchSizes == {1, 2}
FitCoords == 0..MaxFitCoord
FitVecs == {IntVec(<<x, y>>) : x \in FitCoords, y \in FitCoords}
LexLeq(u, v) == u[1].a < v[1].a \/ (u[1].a = v[1].a /\ u[2].a <= v[2].a)
Clouds(n) ==
    {c \in [1..n -> FitVecs] :
        /\ c[1] = IntVec(<<0, 0>>)
        /\ \A k \in 1..(n - 1) : LexLeq(c[k], c[k + 1])}
SecondClouds == {<<IntVec(<<0, 0>>), IntVec(<<1, 1>>)>>, <<IntVec(<<1, 1>>), IntVec(<<1, 1>>)>>}
PointClouds ==
    UNION {{Tensor3(<<c>>) : c \in Clouds(n)} : n \in 2..MaxN}
    \cup {Tensor3(<<c, d>>) : c \in Clouds(2), d \in SecondClouds}
Ones(b, n) == Tensor2(Tup([i \in 1..b |-> Tup([k \in 1..n |-> One])]))
Masks(n) == {Tensor2(<<Tup([k \in 1..n |-> QInt(m[k])])>>) : m \in [1..n -> {0, 1}]}
EqualWeights(n) == {Tensor2(<<Tup([k \in 1..n |-> QInt(c)])>>) : c \in 1..MaxW}
WeightsFor(points) ==
    LET b == points.shape[1]
        n == points.shape[2]
    IN  {NoWeights}
        \cup {Given(Ones(bb, nn)) : bb \in BatchSizes, nn \in {n - 1, n, n + 1} \ {0}}
        \cup (IF b = 1 THEN {Given(w) : w \in Masks(n) \cup EqualWeights(n)} ELSE {})
FitInputs == UNION {{<<points, weights>> : weights \in WeightsFor(points)} : points \in PointClouds}

(* test_fit_line2: points sampled on the line through p0 and p1 at the     *)
(* steps torch.linspace(-T, T, n), then fitted; p0 comes before p1 in      *)
(* lexicographic order (the other order is the same line reversed)         *)
linspace(T, n) == Tup([k \in 1..n |-> QFrac(2 * T * (k - 1) - T * (n - 1), n - 1)])
StepSeqs == {linspace(T, n) : T \in 1..MaxT, n \in 2..MaxN}
SampledInputs ==
    {i \in GridPoints \X GridPoints \X StepSeqs : i[1] # i[2] /\ LexLeq(i[1].v, i[2].v)}

InitFit ==
    /\ line = None
    /\ op = "init"
    /\ args \in FitInputs \cup SampledInputs
    /\ ret = None
    /\ fed = FALSE
    /\ locals = None

FitLine ==
    /\ op = "init"
    /\ Len(args) = 2
    /\ op' = "fit_line"
    /\ fit_line(args[1], args[2])
    /\ UNCHANGED line

FitSampled ==
    /\ op = "init"
    /\ Len(args) = 3
    /\ LET l1 == through(args[1], args[2])
           ts == args[3]
           pts == Tensor3(<<Tup([k \in DOMAIN ts |-> point_at(l1, ts[k]).v])>>)
       IN  /\ line' = l1
           /\ op' = "fit_sampled"
           /\ fit_line(pts, NoWeights)

NextFit ==
    \/ FitLine
    \/ FitSampled

SpecFit == InitFit /\ [][NextFit]_vars

(***************************************************************************)
(* Properties of ParametrizedLine, checked under Spec.                     *)
(***************************************************************************)
Rows(x) == IF Rank(x) = 1 THEN <<x.v>> ELSE x.v
IsUnit(u) == squared_norm(u) = One
HasUnitDirection(self) == IsSingle(self) /\ IsUnit(self.direction.v)
OnLine(self, point) == \E t \in Steps : point = point_at(self, t)
Irrational(u) == \E i \in DOMAIN u : u[i].r # 1
(* u = k * v for some k > 0 (two coordinates) *)
PositiveMultiple(u, v) ==
    /\ QMul(u[1], v[2]) = QMul(u[2], v[1])
    /\ QSign(Dot(u, v)) > 0

(* C2: on a line with unit direction, the distance and the squared         *)
(* distance to the line's own point point_at(t) are zero, for every t.     *)
C2_DistanceToOwnPoint ==
    (/\ op \in {"squared_distance", "distance"}
     /\ HasUnitDirection(line)
     /\ OnLine(line, args[1]))
    => ret = Zero

(* C3: on a line with unit direction, squared_distance(P) is the squared   *)
(* norm of P - projection(P); it is >= 0 and it is 0 exactly when P is on  *)
(* the line.                                                               *)
C3_SquaredDistanceIsResidual ==
    (op = "squared_distance" /\ HasUnitDirection(line)) =>
        LET P == args[1]
            foot == projection(line, P)
        IN  /\ ret = squared_norm(VSub(P.v, foot.v))
            /\ QSign(ret) >= 0
            /\ (ret = Zero) <=> (P = foot)

C8_Through ==
    (op = "through") =>
        /\ line.origin = args[1]
        /\ \A b \in DOMAIN Rows(args[1]) :
              LET p0 == Rows(args[1])[b]
                  p1 == Rows(args[2])[b]
                  d  == Rows(line.direction)[b]
              IN  p0 # p1 => IsUnit(d) /\ PositiveMultiple(d, VSub(p1, p0))
        /\ (args = <<Tensor1(IntVec(<<0, 0>>)), Tensor1(IntVec(<<1, 0>>))>>)
              => line.direction = Tensor1(IntVec(<<1, 0>>))

C8_Witness ==
    /\ op = "through"
    /\ IsSingle(line)
    /\ args[1] # args[2]
    /\ args[1].v # IntVec(<<0, 0>>)
    /\ Irrational(line.direction.v)
    /\ IsUnit(line.direction.v)

(* C9: dim() returns the size D of the last axis of direction, for a       *)
(* single D-vector and for a (B, D) stack alike.                           *)
C9_DimIsD ==
    (op = "dim") => ret = line.direction.shape[Rank(line.direction)]

(***************************************************************************)
(* Properties of fit_line, checked under SpecFit.                          *)
(***************************************************************************)
Fitted == op \in {"fit_line", "fit_sampled"}
Returned == Fitted /\ ~locals.raised
points_arg == args[1]
weights_arg == args[2]
(* u is a unit eigenvector of the symmetric M for its largest eigenvalue *)
IsTopEigenvector(M, u) ==
    /\ IsUnit(u)
    /\ IsEigenvector(M, u)
    /\ QLeq(Rayleigh(M, Perp(u)), Rayleigh(M, u))
(* the directions fit_line may return for the inputs *)
FitsOf(A) == {SelectLast0(V) : V \in svd(A)}
Fits(points, weights) == FitsOf(fit_line_A(points, weights).A)
ScaleMatrix(M, c) == Tup([i \in DOMAIN M |-> VScale(M[i], c)])
Uniform(n, c) == Given(Tensor2(<<Tup([k \in 1..n |-> c])>>))
(* the cloud with point k moved to q, and with point k removed *)
Moved(points, k, q) == Tensor3(<<[points.v[1] EXCEPT ![k] = q]>>)
Removed(w, k) == SubSeq(w, 1, k - 1) \o SubSeq(w, k + 1, Len(w))

(* C1: the direction fitted to N >= 2 distinct points of a line with unit  *)
(* direction d is collinear with d: |dot(fitted, d)| = 1.                  *)
C1_FitRecoversDirection ==
    (op = "fit_sampled") =>
        /\ ~locals.raised
        /\ QAbs(Dot(ret.v[1], line.direction.v)) = One

(* C5: weights whose first two axes differ from those of points end        *)
(* fit_line in a validation error with no direction returned, raised       *)
(* before the centroid, the centred points, the scatter matrix or the      *)
(* decomposition have been computed.                                       *)
C5_WeightsValidatedFirst ==
    (/\ op = "fit_line"
     /\ weights_arg # NoWeights
     /\ SubSeq(weights_arg[1].shape, 1, 2) # SubSeq(points_arg.shape, 1, 2))
    => /\ locals.raised
       /\ DOMAIN locals \cap {"points_mean", "A", "V"} = {}

(* C6: a point of weight 0 does not influence the fit: moving it, or       *)
(* removing it from the cloud, leaves the scatter matrix unchanged.        *)
C6_ZeroWeightIgnored ==
    (Returned /\ op = "fit_line" /\ weights_arg # NoWeights /\ points_arg.shape[1] = 1) =>
        \A k \in 1..points_arg.shape[2] :
            weights_arg[1].v[1][k] = Zero =>
                /\ \A q \in FitVecs :
                      fit_line_A(Moved(points_arg, k, q), weights_arg).A = locals.A
                /\ points_arg.shape[2] > 2 =>
                      fit_line_A(Tensor3(<<Removed(points_arg.v[1], k)>>),
                                 Given(Tensor2(<<Removed(weights_arg[1].v[1], k)>>))).A
                          = locals.A

(* C7: equal weights c > 0 give the fit of the call without weights: the   *)
(* scatter matrix is c times the unweighted one (the same for c = 1) and   *)
(* the directions fit_line may return are the same.                        *)
C7_EqualWeights ==
    (Returned /\ op = "fit_line" /\ points_arg.shape[1] = 1) =>
        LET n == points_arg.shape[2]
        IN  \A w \in 1..MaxW :
                LET c == QInt(w)
                    weighted == IF weights_arg = Uniform(n, c) THEN locals
                                ELSE fit_line_A(points_arg, Uniform(n, c))
                    plain == IF weights_arg = NoWeights THEN locals
                             ELSE fit_line_A(points_arg, NoWeights)
                IN  (weights_arg = Uniform(n, c) \/ weights_arg = NoWeights) =>
                        /\ ~weighted.raised
                        /\ weighted.A.v[1] = ScaleMatrix(plain.A.v[1], c)
                        /\ ret \in FitsOf(weighted.A)
                        /\ ret \in FitsOf(plain.A)

C7_Witness ==
    /\ Returned
    /\ op = "fit_line"
    /\ points_arg.shape = <<1, 3, 2>>
    /\ weights_arg = Uniform(3, QInt(2))
    /\ Rayleigh(locals.A.v[1], Perp(ret.v[1])) # Zero
    /\ Rayleigh(locals.A.v[1], ret.v[1]) # Rayleigh(locals.A.v[1], Perp(ret.v[1]))

(* C10: for every batch element, the returned vector is a unit eigenvector *)
(* of that element's scatter matrix for its largest eigenvalue.            *)
C10_ReturnsTopEigenvector ==
    Returned =>
        \A b \in DOMAIN ret.v : IsTopEigenvector(locals.A.v[b], ret.v[b])
====
